---- MODULE Spec2Model ----
(***************************************************************************)
(* Model of backend/main.py: the POST /submit-answer/ handler of the       *)
(* handwritten-answer grading service.  A request is taken through the     *)
(* handler one statement group at a time; the MathPix service, the LaTeX   *)
(* parser and the expression parser are the environment, described by what *)
(* they return or raise.                                                   *)
(*                                                                         *)
(* Strings are sequences of tokens: " " is one whitespace character, any   *)
(* other token is a run of non-whitespace characters.  The empty Python    *)
(* string is << >>.                                                        *)
(***************************************************************************)
EXTENDS Integers, Sequences, FiniteSets, TLC

VARIABLES
    MATHPIX_APP_ID,     \* module global, main.py:23
    MATHPIX_APP_KEY,    \* module global, main.py:24
    CORRECT_ANSWER,     \* module global, main.py:27
    pc,                 \* position of the request in submit_answer
    img_bytes,          \* local: the uploaded bytes
    correct_answer,     \* form field: [some |-> BOOLEAN, val |-> string]
    response,           \* what requests.post returned or raised
    latex_text,         \* local
    student_expr,       \* local
    correct_expr,       \* local
    result,             \* the HTTP response handed to the caller
    fault,              \* exception that left the handler uncaught, or "none"
    log,                \* the steps this request has performed, in order
    sympify_arg,        \* the argument the last sympify call received
    remembered          \* an earlier request's inputs and result

vars == <<MATHPIX_APP_ID, MATHPIX_APP_KEY, CORRECT_ANSWER, pc, img_bytes,
          correct_answer, response, latex_text, student_expr, correct_expr,
          result, fault, log, sympify_arg, remembered>>

globals == <<MATHPIX_APP_ID, MATHPIX_APP_KEY, CORRECT_ANSWER>>

locals == <<response, latex_text, student_expr, correct_expr>>

-----------------------------------------------------------------------------
(* Bounds of the model *)

\* most whitespace characters on either side of a recognised text
MaxPad == 1

-----------------------------------------------------------------------------
(* Strings *)

Whitespace == {" "}

Pad(n) == [i \in 1..n |-> " "]

RECURSIVE LStrip(_)
LStrip(s) == IF s # << >> /\ Head(s) \in Whitespace THEN LStrip(Tail(s)) ELSE s

RECURSIVE RStrip(_)
RStrip(s) ==
    IF s # << >> /\ s[Len(s)] \in Whitespace
    THEN RStrip(SubSeq(s, 1, Len(s) - 1))
    ELSE s

\* fault injection: the text is used untrimmed
Strip_omitted(s) == s

\* str.strip()
Strip(s) == RStrip(LStrip(s))

\* Python truthiness of an optional string: None and "" are falsy
Truthy(opt) == opt.some /\ opt.val # << >>

None == [some |-> FALSE, val |-> << >>]

Some(s) == [some |-> TRUE, val |-> s]

-----------------------------------------------------------------------------
(* Configuration read at import time *)

DefaultAppId == "YOUR_APP_ID"

DefaultAppKey == "YOUR_APP_KEY"

AppIds == {DefaultAppId, "app-id-1"}

AppKeys == {DefaultAppKey, "app-key-1"}

DefaultCorrectAnswer == <<"(x + 1)**2">>

-----------------------------------------------------------------------------
(* The symbolic library.  Expressions are polynomials in x of degree at    *)
(* most two, <<c0, c1, c2>>, or an equation, on which "-" is undefined.    *)

Poly(c) == [kind |-> "poly", c |-> c]

Relation == [kind |-> "rel", c |-> <<0, 0, 0>>]

NoExpr == [kind |-> "none", c |-> <<0, 0, 0>>]

Ok(v) == [ok |-> TRUE, val |-> v, err |-> ""]

Raise(e) == [ok |-> FALSE, val |-> NoExpr, err |-> e]

\* non-whitespace recognised texts
LatexCores == {<<"(x+1)^2">>, <<"x^2+2x+1">>, <<"x^2+1">>, <<"\\frac{">>, <<"x=1">>}

\* sympy.parsing.latex.parse_latex
parse_latex(s) ==
    CASE s = <<"(x+1)^2">>  -> Ok(Poly(<<1, 2, 1>>))
      [] s = <<"x^2+2x+1">> -> Ok(Poly(<<1, 2, 1>>))
      [] s = <<"x^2+1">>    -> Ok(Poly(<<1, 0, 1>>))
      [] s = <<"x=1">>      -> Ok(Relation)
      [] OTHER              -> Raise("LaTeXParsingError")

\* sympy.sympify on a string
sympify(s) ==
    CASE s = <<"(x + 1)**2">>     -> Ok(Poly(<<1, 2, 1>>))
      [] s = <<"x**2 + 2*x + 1">> -> Ok(Poly(<<1, 2, 1>>))
      [] s = <<"x**2 + 1">>       -> Ok(Poly(<<1, 0, 1>>))
      [] OTHER                    -> Raise("SympifyError")

\* simplify(a - b): the difference in canonical form; "-" raises on an equation
simplify_difference(a, b) ==
    IF a.kind = "poly" /\ b.kind = "poly"
    THEN Ok(Poly([i \in 1..3 |-> a.c[i] - b.c[i]]))
    ELSE Raise("TypeError")

Zero == Poly(<<0, 0, 0>>)

-----------------------------------------------------------------------------
(* The recognition service *)

\* the texts the service sends with whitespace around them
PaddedCores == {<< >>, <<"(x+1)^2">>}

Texts ==
    LatexCores
    \cup {Pad(l) \o core \o Pad(r) :
            l \in 0..MaxPad, r \in 0..MaxPad, core \in PaddedCores}

\* a response body: not JSON at all, a JSON array, or a JSON object whose
\* "text" member is missing, null or a string
Body(kind, text) == [kind |-> kind, text |-> text]

Bodies ==
    {Body(k, << >>) : k \in {"notjson", "array", "object_notext", "object_nulltext"}}
    \cup {Body("object_text", t) : t \in Texts}

NoBody == Body("none", << >>)

Returned(status, body) ==
    [raised |-> FALSE, exc |-> "", status_code |-> status, body |-> body]

Raised(e) == [raised |-> TRUE, exc |-> e, status_code |-> 0, body |-> NoBody]

NoResponse == [raised |-> FALSE, exc |-> "", status_code |-> 0, body |-> NoBody]

TransportErrors == {"ConnectionError", "Timeout"}

\* everything requests.post can do
ServiceBehaviours ==
    {Raised(e) : e \in TransportErrors}
    \cup {Returned(200, b) : b \in Bodies}
    \cup {Returned(401, b) : b \in {Body("notjson", << >>), Body("object_notext", << >>)}}

-----------------------------------------------------------------------------
(* Request inputs *)

Images == {<< >>, <<"png">>}

Answers ==
    {None, Some(<< >>), Some(<<" ">>), Some(<<"(x + 1)**2">>),
     Some(<<"x**2 + 1">>), Some(<<")))invalid(((">>)}

NoResult == [status |-> 0, content |-> [none |-> TRUE]]

NoRemembered == [set |-> FALSE]

-----------------------------------------------------------------------------
(* Responses *)

\* a returned dict: FastAPI sends it as JSON with status 200
Json200(content) == [status |-> 200, content |-> content]

\* JSONResponse(status_code=..., content=...)
JSONResponse(status_code, content) == [status |-> status_code, content |-> content]

\* what the framework sends when the handler raises
InternalServerError == [status |-> 500, content |-> [plain |-> "Internal Server Error"]]

DevModePayload ==
    [latex |-> << >>, correct |-> "null",
     feedback |-> <<"Backend connected! Configure MathPix keys to enable real math recognition.">>]

TransportErrorPayload(e) == [error |-> <<"Error calling MathPix: ", e>>]

ServiceErrorPayload(text) == [error |-> <<"MathPix API error">>, details |-> text]

CouldNotReadPayload ==
    [latex |-> << >>, correct |-> "null",
     feedback |-> <<"Could not read your answer. Try writing more clearly.">>]

ExpressionErrorPayload(text, e) ==
    [latex |-> text, correct |-> "null",
     feedback |-> <<"Error processing your answer: ", e>>]

CorrectFeedback == <<"Correct! Well done.">>

IncorrectFeedback == <<"Incorrect. Check your factoring and try again.">>

SuccessPayload(text, is_correct) ==
    [latex |-> text,
     correct |-> IF is_correct THEN "true" ELSE "false",
     feedback |-> IF is_correct THEN CorrectFeedback ELSE IncorrectFeedback]

-----------------------------------------------------------------------------
(* The handler, statement by statement *)

\* fault injection: "and" in place of "or"
Unconfigured_and(app_id, app_key) == app_id = DefaultAppId /\ app_key = DefaultAppKey

\* the condition of main.py:49
Unconfigured(app_id, app_key) == app_id = DefaultAppId \/ app_key = DefaultAppKey

\* response.json().get("text", "").strip(); raises on a body that is not a
\* JSON object or whose "text" is not a string
GetText(body) ==
    CASE body.kind = "notjson"         -> Raise("JSONDecodeError")
      [] body.kind = "array"           -> Raise("AttributeError")
      [] body.kind = "object_nulltext" -> Raise("AttributeError")
      [] body.kind = "object_notext"   -> Ok(Strip(<< >>))
      [] OTHER                         -> Ok(Strip(body.text))

\* fault injection: the caller's answer is ignored
Expected_ignored(answer, default) == default

\* fault injection: "is not None" in place of truthiness
Expected_not_none(answer, default) == IF answer.some THEN answer.val ELSE default

\* expected = correct_answer if correct_answer else CORRECT_ANSWER
Expected(answer, default) == IF Truthy(answer) THEN answer.val ELSE default

\* fault injection: the comparison inverted
IsZero_inverted(diff) == diff # Zero

\* simplify(student_expr - correct_expr) == 0
IsZero(diff) == diff = Zero

Respond(r) ==
    /\ pc' = "Responded"
    /\ result' = r

\* a request arrives; file.read() yields its bytes
Receive ==
    /\ pc = "Idle"
    /\ \E img \in Images, answer \in Answers :
         /\ img_bytes' = img
         /\ correct_answer' = answer
    /\ pc' = "Received"
    /\ response' = NoResponse
    /\ latex_text' = << >>
    /\ student_expr' = NoExpr
    /\ correct_expr' = NoExpr
    /\ result' = NoResult
    /\ fault' = "none"
    /\ log' = << >>
    /\ sympify_arg' = None
    /\ UNCHANGED <<globals, remembered>>

\* main.py:49-66
CheckCredentials ==
    /\ pc = "Received"
    /\ IF Unconfigured(MATHPIX_APP_ID, MATHPIX_APP_KEY)
       THEN Respond(Json200(DevModePayload))
       ELSE pc' = "Calling" /\ UNCHANGED result
    /\ log' = Append(log, "credentials")
    /\ UNCHANGED <<globals, img_bytes, correct_answer, locals, fault,
                   sympify_arg, remembered>>

\* fault injection: a transport exception is retried once
CallMathpix_retry ==
    /\ pc = "Calling"
    /\ \E behaviour \in ServiceBehaviours :
         /\ response' = behaviour
         /\ IF behaviour.raised
            THEN IF response.raised
                 THEN Respond(JSONResponse(500, TransportErrorPayload(behaviour.exc)))
                 ELSE pc' = "Calling" /\ UNCHANGED result
            ELSE pc' = "CheckStatus" /\ UNCHANGED result
    /\ log' = Append(log, "post")
    /\ UNCHANGED <<globals, img_bytes, correct_answer, latex_text, student_expr,
                   correct_expr, fault, sympify_arg, remembered>>

\* main.py:68-76
CallMathpix ==
    /\ pc = "Calling"
    /\ \E behaviour \in ServiceBehaviours :
         /\ response' = behaviour
         /\ IF behaviour.raised
            THEN Respond(JSONResponse(500, TransportErrorPayload(behaviour.exc)))
            ELSE pc' = "CheckStatus" /\ UNCHANGED result
    /\ log' = Append(log, "post")
    /\ UNCHANGED <<globals, img_bytes, correct_answer, latex_text, student_expr,
                   correct_expr, fault, sympify_arg, remembered>>

\* fault injection: the error response is built but not returned
CheckStatus_no_return ==
    /\ pc = "CheckStatus"
    /\ pc' = "ReadText"
    /\ log' = Append(log, "status")
    /\ UNCHANGED <<globals, img_bytes, correct_answer, locals, result, fault,
                   sympify_arg, remembered>>

\* main.py:78-82
CheckStatus ==
    /\ pc = "CheckStatus"
    /\ IF response.status_code # 200
       THEN Respond(JSONResponse(500, ServiceErrorPayload(response.body)))
       ELSE pc' = "ReadText" /\ UNCHANGED result
    /\ log' = Append(log, "status")
    /\ UNCHANGED <<globals, img_bytes, correct_answer, locals, fault,
                   sympify_arg, remembered>>

\* main.py:84, outside any try block
ReadText ==
    /\ pc = "ReadText"
    /\ LET got == GetText(response.body) IN
         IF got.ok
         THEN /\ latex_text' = got.val
              /\ pc' = "CheckEmpty"
              /\ UNCHANGED <<result, fault>>
         ELSE /\ fault' = got.err
              /\ Respond(InternalServerError)
              /\ UNCHANGED latex_text
    /\ log' = Append(log, "json")
    /\ UNCHANGED <<globals, img_bytes, correct_answer, response, student_expr,
                   correct_expr, sympify_arg, remembered>>

\* main.py:86-91
CheckEmpty ==
    /\ pc = "CheckEmpty"
    /\ IF latex_text = << >>
       THEN Respond(Json200(CouldNotReadPayload))
       ELSE pc' = "ParseLatex" /\ UNCHANGED result
    /\ log' = Append(log, "empty")
    /\ UNCHANGED <<globals, img_bytes, correct_answer, locals, fault,
                   sympify_arg, remembered>>

\* main.py:95, with the except clause of 105-110
ParseLatex ==
    /\ pc = "ParseLatex"
    /\ LET parsed == parse_latex(latex_text) IN
         IF parsed.ok
         THEN /\ student_expr' = parsed.val
              /\ pc' = "ParseExpected"
              /\ UNCHANGED result
         ELSE /\ Respond(Json200(ExpressionErrorPayload(latex_text, parsed.err)))
              /\ UNCHANGED student_expr
    /\ log' = Append(log, "parse_latex")
    /\ UNCHANGED <<globals, img_bytes, correct_answer, response, latex_text,
                   correct_expr, fault, sympify_arg, remembered>>

\* fault injection: the expected answer is stored in the module global
ParseExpected_global ==
    /\ pc = "ParseExpected"
    /\ LET expected == IF Truthy(correct_answer) THEN correct_answer.val ELSE CORRECT_ANSWER
           parsed == sympify(expected)
       IN /\ sympify_arg' = Some(expected)
          /\ CORRECT_ANSWER' = expected
          /\ IF parsed.ok
             THEN /\ correct_expr' = parsed.val
                  /\ pc' = "Compare"
                  /\ UNCHANGED result
             ELSE /\ Respond(Json200(ExpressionErrorPayload(latex_text, parsed.err)))
                  /\ UNCHANGED correct_expr
    /\ log' = Append(log, "sympify")
    /\ UNCHANGED <<MATHPIX_APP_ID, MATHPIX_APP_KEY, img_bytes, correct_answer,
                   response, latex_text, student_expr, fault, remembered>>

\* main.py:96-97, with the except clause of 105-110
ParseExpected ==
    /\ pc = "ParseExpected"
    /\ LET expected == Expected(correct_answer, CORRECT_ANSWER)
           parsed == sympify(expected)
       IN /\ sympify_arg' = Some(expected)
          /\ IF parsed.ok
             THEN /\ correct_expr' = parsed.val
                  /\ pc' = "Compare"
                  /\ UNCHANGED result
             ELSE /\ Respond(Json200(ExpressionErrorPayload(latex_text, parsed.err)))
                  /\ UNCHANGED correct_expr
    /\ log' = Append(log, "sympify")
    /\ UNCHANGED <<globals, img_bytes, correct_answer, response, latex_text,
                   student_expr, fault, remembered>>

\* main.py:100-104 and 112, with the except clause of 105-110
Compare ==
    /\ pc = "Compare"
    /\ LET diff == simplify_difference(student_expr, correct_expr) IN
         IF diff.ok
         THEN Respond(Json200(SuccessPayload(latex_text, IsZero(diff.val))))
         ELSE Respond(Json200(ExpressionErrorPayload(latex_text, diff.err)))
    /\ log' = Append(log, "simplify")
    /\ UNCHANGED <<globals, img_bytes, correct_answer, locals, fault,
                   sympify_arg, remembered>>

\* the request's inputs, and what the service did for it
RequestKey == [img |-> img_bytes, answer |-> correct_answer, service |-> response]

Discard ==
    /\ pc' = "Idle"
    /\ img_bytes' = << >>
    /\ correct_answer' = None
    /\ response' = NoResponse
    /\ latex_text' = << >>
    /\ student_expr' = NoExpr
    /\ correct_expr' = NoExpr
    /\ result' = NoResult
    /\ fault' = "none"
    /\ log' = << >>
    /\ sympify_arg' = None
    /\ UNCHANGED globals

\* the response is sent and the request's data is dropped
Finish ==
    /\ pc = "Responded"
    /\ Discard
    /\ remembered' = IF remembered.set
                     THEN [remembered EXCEPT !.between = TRUE]
                     ELSE remembered

\* the same, keeping a copy of the request and its response for comparison
FinishRemember ==
    /\ pc = "Responded"
    /\ Discard
    /\ remembered' = [set |-> TRUE, key |-> RequestKey, result |-> result,
                      fault |-> fault, between |-> FALSE]

Init ==
    /\ MATHPIX_APP_ID \in AppIds
    /\ MATHPIX_APP_KEY \in AppKeys
    /\ CORRECT_ANSWER = DefaultCorrectAnswer
    /\ pc = "Idle"
    /\ img_bytes = << >>
    /\ correct_answer = None
    /\ response = NoResponse
    /\ latex_text = << >>
    /\ student_expr = NoExpr
    /\ correct_expr = NoExpr
    /\ result = NoResult
    /\ fault = "none"
    /\ log = << >>
    /\ sympify_arg = None
    /\ remembered = NoRemembered

Step ==
    \/ Receive
    \/ CheckCredentials
    \/ CallMathpix
    \/ CheckStatus
    \/ ReadText
    \/ CheckEmpty
    \/ ParseLatex
    \/ ParseExpected
    \/ Compare

Next == Step \/ Finish

Spec == Init /\ [][Next]_vars

NextRepeat == Step \/ Finish \/ FinishRemember

SpecRepeat == Init /\ [][NextRepeat]_vars

-----------------------------------------------------------------------------
(* Vocabulary of the properties, stated on the observable data alone *)

Responded == pc = "Responded"

Did(step) == \E i \in 1..Len(log) : log[i] = step

Times(step) == Cardinality({i \in 1..Len(log) : log[i] = step})

CredentialsSet == MATHPIX_APP_ID # "YOUR_APP_ID" /\ MATHPIX_APP_KEY # "YOUR_APP_KEY"

OutcomeFields == {"latex", "correct", "feedback"}

\* the service was called and raised
TransportFailed == Did("post") /\ response.raised

\* the service answered with a status other than 200
ServiceRefused == Did("post") /\ ~response.raised /\ response.status_code # 200

\* the service answered 200 with a JSON object whose text is a string or missing
TextReturned ==
    /\ Did("post") /\ ~response.raised /\ response.status_code = 200
    /\ response.body.kind \in {"object_text", "object_notext"}

AllWhitespace(s) == \A i \in 1..Len(s) : s[i] = " "

TextIsBlank == TextReturned /\ AllWhitespace(response.body.text)

TextIsLegible == TextReturned /\ ~AllWhitespace(response.body.text)

OutcomesOf(r) ==
    {o \in {"Unconfigured", "RecognitionUnavailable", "RecognitionServiceError",
            "IllegibleInput", "ExpressionError", "Success"} :
        CASE o = "Unconfigured" ->
               /\ r.status = 200 /\ DOMAIN r.content = OutcomeFields
               /\ r.content.correct = "null" /\ r.content.latex = << >>
               /\ r.content.feedback[1] = "Backend connected! Configure MathPix keys to enable real math recognition."
          [] o = "RecognitionUnavailable" ->
               /\ r.status = 500 /\ DOMAIN r.content = {"error"}
               /\ r.content.error[1] = "Error calling MathPix: "
          [] o = "RecognitionServiceError" ->
               /\ r.status = 500 /\ DOMAIN r.content = {"error", "details"}
               /\ r.content.error = <<"MathPix API error">>
          [] o = "IllegibleInput" ->
               /\ r.status = 200 /\ DOMAIN r.content = OutcomeFields
               /\ r.content.correct = "null" /\ r.content.latex = << >>
               /\ r.content.feedback[1] = "Could not read your answer. Try writing more clearly."
          [] o = "ExpressionError" ->
               /\ r.status = 200 /\ DOMAIN r.content = OutcomeFields
               /\ r.content.correct = "null"
               /\ r.content.feedback[1] = "Error processing your answer: "
          [] OTHER ->
               /\ r.status = 200 /\ DOMAIN r.content = OutcomeFields
               /\ r.content.correct \in {"true", "false"}}

-----------------------------------------------------------------------------
(* Properties *)

\* C1: every request ends with exactly one of the six structured outcomes
\* (Unconfigured, RecognitionUnavailable, RecognitionServiceError,
\* IllegibleInput, ExpressionError, Success) and never with an exception that
\* leaves the handler uncaught, whatever the service returned.
C1_ExactlyOneStructuredOutcome ==
    Responded => fault = "none" /\ Cardinality(OutcomesOf(result)) = 1

\* C2: with either credential at its default, no call to the recognition
\* service is made and the response is the dev-mode payload with status 200,
\* for every image and every expected answer.
C2_UnconfiguredShortCircuits ==
    ~CredentialsSet =>
        /\ ~Did("post")
        /\ Responded =>
             result = [status |-> 200,
                       content |-> [latex |-> << >>, correct |-> "null",
                                    feedback |-> <<"Backend connected! Configure MathPix keys to enable real math recognition.">>]]

C2_Witness ==
    /\ Responded
    /\ MATHPIX_APP_ID # "YOUR_APP_ID" /\ MATHPIX_APP_KEY = "YOUR_APP_KEY"
    /\ img_bytes = << >>
    /\ correct_answer = Some(<<")))invalid(((">>)
    /\ result.status = 200

\* C3: with both credentials configured, a request makes exactly one call to
\* the recognition endpoint whatever the call's outcome: never more than one
\* while it runs, and exactly one by the time it has responded.
C3_ExactlyOneCall ==
    CredentialsSet =>
        /\ Times("post") <= 1
        /\ Responded => Times("post") = 1

C3_Witness ==
    /\ Responded /\ CredentialsSet
    /\ response.raised /\ response.exc = "Timeout"
    /\ Times("post") = 1
    /\ result.status = 500

\* C4: the response has a non-200 status (500, with an "error" field) exactly
\* when the recognition call raised or the service returned a non-success
\* status; every other response is 200 with fields latex, correct, feedback.
C4_Non200OnlyForServiceConditions ==
    Responded =>
        /\ (result.status # 200) <=> (TransportFailed \/ ServiceRefused)
        /\ result.status # 200 =>
             result.status = 500 /\ "error" \in DOMAIN result.content
        /\ result.status = 200 => DOMAIN result.content = OutcomeFields

\* C5: when the text the service returned is empty after trimming, neither
\* parser is invoked for the request and the response is the could-not-read
\* payload, for any expected answer.
C5_BlankTextIsIllegible ==
    TextIsBlank =>
        /\ ~Did("parse_latex") /\ ~Did("sympify") /\ ~Did("simplify")
        /\ Responded =>
             result = [status |-> 200,
                       content |-> [latex |-> << >>, correct |-> "null",
                                    feedback |-> <<"Could not read your answer. Try writing more clearly.">>]]

C5_Witness ==
    /\ Responded
    /\ TextReturned /\ response.body.text = <<" ">>
    /\ correct_answer = Some(<<")))invalid(((">>)
    /\ result.content.correct = "null"

\* the caller supplied an expected answer (a non-empty string; an empty one
\* counts as omitted) that the expression parser rejects
AnswerUnparseable ==
    /\ correct_answer.some /\ correct_answer.val # << >>
    /\ ~sympify(correct_answer.val).ok

IsExpressionErrorResult ==
    /\ result.status = 200 /\ DOMAIN result.content = OutcomeFields
    /\ result.content.correct = "null"
    /\ result.content.feedback[1] = "Error processing your answer: "

\* C6 as stated: given an expected answer that fails to parse, the response
\* has correct null and the "Error processing your answer: ..." feedback,
\* regardless of the text that was recognised.
C6_UnparseableAnswerAlwaysExpressionError ==
    (Responded /\ TextReturned /\ AnswerUnparseable) => IsExpressionErrorResult

\* C6 as amended: given an expected answer that fails to parse and a
\* recognised text that is non-empty after trimming, the response has correct
\* null, a non-empty latex and the "Error processing your answer: ..."
\* feedback, whether or not the recognised text itself parses.
C6_UnparseableAnswerWithLegibleText ==
    (Responded /\ TextIsLegible /\ AnswerUnparseable) =>
        /\ IsExpressionErrorResult
        /\ ~AllWhitespace(result.content.latex)

C6_Witness ==
    /\ Responded
    /\ response.body.text = <<" ", "(x+1)^2", " ">> /\ TextIsLegible
    /\ correct_answer = Some(<<")))invalid(((">>)
    /\ result.content.feedback = <<"Error processing your answer: ", "SympifyError">>

\* both expressions were parsed and their difference was simplified
Compared ==
    /\ Did("simplify")
    /\ student_expr.kind = "poly" /\ correct_expr.kind = "poly"

DifferenceIsZero == \A i \in 1..3 : student_expr.c[i] = correct_expr.c[i]

\* C7: whenever the response carries the field correct, it is true, false or
\* null; true exactly when both expressions parsed and their simplified
\* difference is zero, with the "correct" feedback; false exactly when both
\* parsed and the difference is not zero, with the "incorrect" feedback; null
\* exactly when the comparison was not attempted or raised.  A parse or
\* evaluation failure never gives false.
C7_CorrectMatchesComparison ==
    (Responded /\ "correct" \in DOMAIN result.content) =>
        LET c == result.content.correct
            f == result.content.feedback
        IN /\ c \in {"true", "false", "null"}
           /\ c = "true" <=> (Compared /\ DifferenceIsZero)
           /\ c = "false" <=> (Compared /\ ~DifferenceIsZero)
           /\ c = "null" <=> ~Compared
           /\ c = "true" => f = <<"Correct! Well done.">>
           /\ c = "false" => f = <<"Incorrect. Check your factoring and try again.">>
           /\ f[1] = "Error processing your answer: " => c = "null"

C7_Witness ==
    /\ Responded
    /\ latex_text = <<"x^2+2x+1">>
    /\ correct_answer = None
    /\ "correct" \in DOMAIN result.content
    /\ result.content.correct = "true"

\* C8: a request with the same image, the same expected answer and the same
\* behaviour of the recognition service as an earlier request gets the same
\* response (status, latex, correct, feedback) and ends the same way,
\* whatever requests were handled before or in between.
C8_SameRequestSameResponse ==
    (Responded /\ remembered.set /\ remembered.key = RequestKey) =>
        /\ result = remembered.result
        /\ fault = remembered.fault

C8_Witness ==
    /\ Responded
    /\ remembered.set /\ remembered.between /\ remembered.key = RequestKey
    /\ correct_answer = None
    /\ "correct" \in DOMAIN result.content
    /\ result.content.correct = "true"

Order ==
    <<"credentials", "post", "status", "json", "empty", "parse_latex",
      "sympify", "simplify">>

Rank(p) ==
    CASE p = "Idle" -> 0
      [] p = "Received" -> 1
      [] p = "Calling" -> 2
      [] p = "CheckStatus" -> 3
      [] p = "ReadText" -> 4
      [] p = "CheckEmpty" -> 5
      [] p = "ParseLatex" -> 6
      [] p = "ParseExpected" -> 7
      [] p = "Compare" -> 8
      [] OTHER -> 9

\* the steps performed so far are the first steps of the handler, in order
StepsInOrder == Len(log) <= Len(Order) /\ log = SubSeq(Order, 1, Len(log))

\* the step at which each failure ends the request
FailureEndsRequest ==
    /\ ~CredentialsSet => Len(log) <= 1
    /\ TransportFailed => Len(log) = 2 /\ Responded
    /\ ServiceRefused => Len(log) <= 3 /\ (Len(log) = 3 => Responded)
    /\ fault # "none" => Len(log) = 4 /\ Responded
    /\ TextIsBlank => Len(log) <= 5 /\ (Len(log) = 5 => Responded)
    /\ (Did("parse_latex") /\ ~parse_latex(latex_text).ok) => Len(log) = 6 /\ Responded
    /\ (Did("sympify") /\ ~sympify(sympify_arg.val).ok) => Len(log) = 7 /\ Responded

\* a request that has not responded moves to a later position; one that has
\* responded only leaves
ForwardOnly ==
    /\ pc # "Responded" => Rank(pc') > Rank(pc)
    /\ pc = "Responded" => pc' = "Idle"

\* C9: the request moves only forward: credential check, network call,
\* status check, reading the text, parsing, comparison, response, each at most
\* once and in this order; every failure goes straight to the response and no
\* later step is performed for the request.
C9_ForwardOnlyLifecycle ==
    /\ [](StepsInOrder /\ FailureEndsRequest)
    /\ [][ForwardOnly]_vars

C9_Witness ==
    /\ Responded
    /\ ServiceRefused
    /\ log = <<"credentials", "post", "status">>
    /\ result.status = 500

\* C10: the expression parser receives the caller's correct_answer exactly
\* when that is a non-empty string, and "(x + 1)**2" when it is omitted or
\* empty; it never receives the empty string.
C10_ExpectedAnswerChoice ==
    Did("sympify") =>
        /\ sympify_arg.some
        /\ sympify_arg.val # << >>
        /\ (correct_answer.some /\ correct_answer.val # << >>)
             => sympify_arg.val = correct_answer.val
        /\ (~correct_answer.some \/ correct_answer.val = << >>)
             => sympify_arg.val = <<"(x + 1)**2">>
        /\ (Responded /\ (~correct_answer.some \/ correct_answer.val = << >>))
             => ~("feedback" \in DOMAIN result.content
                  /\ result.content.feedback = <<"Error processing your answer: ", "SympifyError">>)

C10_Witness ==
    /\ Did("sympify")
    /\ correct_answer = Some(<< >>)
    /\ sympify_arg = Some(<<"(x + 1)**2">>)
    /\ Responded
    /\ result.content.correct = "true"

====
